---------------------------- MODULE Spec2Model ----------------------------
(***************************************************************************)
(* Proof-of-work admission and difficulty adjustment of conflux-rust      *)
(* (core/src/pow/mod.rs).                                                  *)
(*                                                                         *)
(* U256 is modelled as an unsigned word of WordBits bits, with the same   *)
(* wrap-around and overflow-panic behaviour as the 256-bit type; byte      *)
(* buffers are modelled at bit granularity, most significant cell first.   *)
(* A panic (assert!, expect, unwrap, arithmetic overflow of U256) is the   *)
(* value Panic.                                                            *)
(***************************************************************************)
EXTENDS Integers, Sequences, FiniteSets, TLC

(* ------------------------------ bounds --------------------------------- *)

\* width of the model's U256 word (256 in the program)
WordBits == 6
\* headers walked per adjustment epoch (difficulty_adjustment_epoch_period)
EpochPeriod == 2
\* largest header timestamp
MaxTime == 2
\* largest answer of the blocks-in-epoch query
MaxEpochBlocks == 2

(* ------------------------------ U256 ----------------------------------- *)

\* outside U256: the value of a call that panicked, and Option's None
Panic == 0 - 1
None == 0 - 2

U256_MAX == 2^WordBits - 1
U256 == 0..U256_MAX

\* the number of most significant buffer cells nonce_to_lower_bound keeps
\* (bytes 0..15 of 32 in the program)
HalfBits == WordBits \div 2

\* U256::overflowing_sub, first component
overflowing_sub(a, b) == IF a >= b THEN a - b ELSE (a + U256_MAX + 1) - b

\* U256 + U256: panics on overflow
checked_add(a, b) == IF a + b > U256_MAX THEN Panic ELSE a + b

\* U256 - U256: panics on underflow
checked_sub(a, b) == IF a < b THEN Panic ELSE a - b

\* U256::to_big_endian, one cell per bit, most significant first
to_big_endian(n) == [i \in 1..WordBits |-> (n \div 2^(WordBits - i)) % 2]

\* U256::to_little_endian, one cell per bit, least significant first
to_little_endian(n) == [i \in 1..WordBits |-> (n \div 2^(i - 1)) % 2]

RECURSIVE from_big_endian_acc(_, _, _)
from_big_endian_acc(buf, i, acc) ==
    IF i > Len(buf) THEN acc
    ELSE from_big_endian_acc(buf, i + 1, 2 * acc + buf[i])

\* U256::from(buf): big-endian cells to an integer
from_big_endian(buf) == from_big_endian_acc(buf, 1, 0)

(* --------------------------- ProofOfWorkProblem ------------------------ *)

NO_BOUNDARY == U256_MAX

\* variant: the top bit of the first cell is not masked
nonce_to_lower_bound_keep_top(nonce) ==
    LET buf == to_big_endian(nonce)
        zeroed == [i \in 1..WordBits |-> IF i > HalfBits THEN 0 ELSE buf[i]]
    IN  from_big_endian(zeroed)

\* lines 137-147: the low half of the buffer zeroed, buf[0] & 0x7f
nonce_to_lower_bound(nonce) ==
    LET buf == to_big_endian(nonce)
        zeroed == [i \in 1..WordBits |-> IF i > HalfBits THEN 0 ELSE buf[i]]
        masked == [zeroed EXCEPT ![1] = 0]
    IN  from_big_endian(masked)

\* variant: the comparison alone, without the NO_BOUNDARY test
validate_hash_against_boundary_no_sentinel(hash, nonce, boundary) ==
    overflowing_sub(hash, nonce_to_lower_bound(nonce)) < boundary

validate_hash_against_boundary(hash, nonce, boundary) ==
    LET lower_bound == nonce_to_lower_bound(nonce)
        against_lower_bound_u256 == overflowing_sub(hash, lower_bound)
    IN  against_lower_bound_u256 < boundary \/ boundary = NO_BOUNDARY

\* variant: the quotient of U256::MAX without the rounding correction
compute_inv_no_bump(x) == U256_MAX \div x

compute_inv_x_times_2_pow_256_floor(x) ==
    LET div == U256_MAX \div x
        modular == U256_MAX % x
    IN  IF modular + 1 = x THEN div + 1 ELSE div

boundary_to_difficulty(boundary) ==
    IF boundary = 0 THEN Panic
    ELSE IF boundary = 1 THEN U256_MAX
    ELSE compute_inv_x_times_2_pow_256_floor(boundary)

\* variant: a zero difficulty gets the sentinel instead of the assertion
difficulty_to_boundary_zero_default(difficulty) ==
    IF difficulty <= 1 THEN NO_BOUNDARY
    ELSE compute_inv_x_times_2_pow_256_floor(difficulty)

difficulty_to_boundary(difficulty) ==
    IF difficulty = 0 THEN Panic
    ELSE IF difficulty = 1 THEN NO_BOUNDARY
    ELSE compute_inv_x_times_2_pow_256_floor(difficulty)

\* variant: the degenerate delta U256_MAX is not singled out
pow_hash_to_quality_no_degenerate(hash, nonce) ==
    LET lower_bound == nonce_to_lower_bound(nonce)
        against_bound_u256 == overflowing_sub(hash, lower_bound)
        boundary == checked_add(against_bound_u256, 1)
    IN  IF boundary = Panic THEN Panic ELSE boundary_to_difficulty(boundary)

\* lines 149-158; against_bound_u256 + U256::one() panics on overflow
pow_hash_to_quality(hash, nonce) ==
    LET lower_bound == nonce_to_lower_bound(nonce)
        against_bound_u256 == overflowing_sub(hash, lower_bound)
        boundary == checked_add(against_bound_u256, 1)
    IN  IF against_bound_u256 = U256_MAX THEN 1
        ELSE IF boundary = Panic THEN Panic
        ELSE boundary_to_difficulty(boundary)

\* the constructor panics exactly when its boundary is Panic
ProofOfWorkProblem_new(block_hash, difficulty) ==
    LET boundary == difficulty_to_boundary(difficulty)
    IN  [block_hash |-> block_hash, difficulty |-> difficulty,
         boundary |-> boundary]

(* ------------------------------ PoW hash ------------------------------- *)

RECURSIVE keccak_acc(_, _, _)
keccak_acc(buf, i, acc) ==
    IF i > Len(buf) THEN acc
    ELSE keccak_acc(buf, i + 1, (5 * acc + 3 * buf[i] + 7) % (U256_MAX + 1))

\* stand-in for hash::keccak: a fixed function from a buffer to a digest
keccak(buf) == keccak_acc(buf, 1, 1)

\* byte-wise intermediate[i] ^ block_hash[i]
xor_buf(a, b) == [i \in 1..WordBits |-> (a[i] + b[i]) % 2]

compute(nonce, block_hash) ==
    LET buf == to_big_endian(block_hash) \o to_little_endian(nonce)
        intermediate == to_big_endian(keccak(buf))
        tmp == xor_buf(intermediate, to_big_endian(block_hash))
    IN  keccak(tmp)

validate(problem, solution) ==
    LET nonce == solution.nonce
        hash == compute(nonce, problem.block_hash)
    IN  validate_hash_against_boundary(hash, nonce, problem.boundary)

(* --------------------------- ProofOfWorkConfig ------------------------- *)

\* crate::parameters::pow, scaled to the model's word
INITIAL_DIFFICULTY == 10
TARGET_AVERAGE_BLOCK_GENERATION_PERIOD == 1000000
DIFFICULTY_ADJUSTMENT_EPOCH_PERIOD == EpochPeriod
DIFFICULTY_ADJUSTMENT_FACTOR == 2

\* Option<u64> arguments of ProofOfWorkConfig::new
Some(x) == x
unwrap_or(opt, default) == IF opt = None THEN default ELSE opt

\* the stratum fields take no part in any computation and are left out
ProofOfWorkConfig_new(test_mode, initial_difficulty) ==
    IF test_mode
    THEN [test_mode |-> test_mode,
          initial_difficulty |-> unwrap_or(initial_difficulty, 4),
          block_generation_period |-> 1000000,
          difficulty_adjustment_epoch_period |-> EpochPeriod]
    ELSE [test_mode |-> test_mode,
          initial_difficulty |-> INITIAL_DIFFICULTY,
          block_generation_period |-> TARGET_AVERAGE_BLOCK_GENERATION_PERIOD,
          difficulty_adjustment_epoch_period |->
              DIFFICULTY_ADJUSTMENT_EPOCH_PERIOD]

\* variant: test mode does not short-cut the formula
policy_ignores_test_mode(self, block_count, timespan, cur_difficulty) ==
    IF timespan = 0 \/ block_count <= 1
    THEN self.initial_difficulty
    ELSE LET target == (cur_difficulty * self.block_generation_period
                          * (block_count - 1)) \div (timespan * 1000000)
         IN  IF target = 0 THEN 1
             ELSE IF target > U256_MAX THEN U256_MAX
             ELSE target

\* variant: block_count instead of block_count - 1
policy_counts_every_block(self, block_count, timespan, cur_difficulty) ==
    IF timespan = 0 \/ block_count <= 1 \/ self.test_mode
    THEN self.initial_difficulty
    ELSE LET target == (cur_difficulty * self.block_generation_period
                          * block_count) \div (timespan * 1000000)
         IN  IF target = 0 THEN 1
             ELSE IF target > U256_MAX THEN U256_MAX
             ELSE target

\* ProofOfWorkConfig::target_difficulty; the U512 product of a U256 and two
\* u64 values cannot overflow and is the exact integer product
ProofOfWorkConfig_target_difficulty(self, block_count, timespan, cur_difficulty) ==
    IF timespan = 0 \/ block_count <= 1 \/ self.test_mode
    THEN self.initial_difficulty
    ELSE LET target == (cur_difficulty * self.block_generation_period
                          * (block_count - 1)) \div (timespan * 1000000)
         IN  IF target = 0 THEN 1
             ELSE IF target > U256_MAX THEN U256_MAX
             ELSE target

\* (min_diff, max_diff), or (Panic, Panic) when diff + adjustment overflows
get_adjustment_bound(self, diff) ==
    LET adjustment == diff \div DIFFICULTY_ADJUSTMENT_FACTOR
        min_diff0 == checked_sub(diff, adjustment)
        max_diff0 == checked_add(diff, adjustment)
        initial_diff == self.initial_difficulty
    IN  IF min_diff0 = Panic \/ max_diff0 = Panic THEN <<Panic, Panic>>
        ELSE LET min_diff == IF min_diff0 < initial_diff
                             THEN initial_diff ELSE min_diff0
                 max_diff == IF max_diff0 < min_diff
                             THEN min_diff ELSE max_diff0
             IN  <<min_diff, max_diff>>

(* ------------------------------ state ---------------------------------- *)

VARIABLES
    op,           \* the pure function a caller applies ("resolver": none)
    args,         \* its arguments
    ret,          \* its outcome: NoRet, Returned(v) or Panicked
    pow_config,   \* the node's ProofOfWorkConfig
    headers,      \* BlockDataManager: hash -> header, for the stored hashes
    epoch_blocks, \* the num_blocks_in_epoch closure: hash -> count
    cache,        \* TargetDifficultyCacheInner.cache: hash -> U256 or None
    lock,         \* TargetDifficultyCache.inner's RwLock: who holds it
    pc,           \* per thread: where its call of target_difficulty stands
    frame,        \* per thread: the locals of its call of target_difficulty
    returned      \* per hash: the value the last completed call returned

chain == <<headers, epoch_blocks>>
resolver == <<headers, epoch_blocks, cache, lock, pc, frame, returned>>
vars == <<op, args, ret, pow_config, headers, epoch_blocks, cache, lock, pc, frame, returned>>

NoRet == [st |-> "none"]
Returned(v) == [st |-> "ok", val |-> v]
Panicked == [st |-> "panic"]
\* the outcome of a call of a function whose value is an integer or Panic
Outcome(v) == IF v = Panic THEN Panicked ELSE Returned(v)

(* --------------------------- hashes and threads ------------------------ *)

\* the trunk 0..EpochPeriod-1 holds the headers of heights 0..EpochPeriod-1;
\* TipHash and OtherTipHash are headers of height EpochPeriod on top of it;
\* UnknownHash is never stored and is the parent of the genesis header;
\* ChildHash is a header of height EpochPeriod + 1 on top of TipHash
TipHash == EpochPeriod
OtherTipHash == EpochPeriod + 1
UnknownHash == EpochPeriod + 2
ChildHash == EpochPeriod + 3
Hashes == 0..ChildHash

\* parking_lot::RwLock: any number of readers, or one writer
RwLock_new == [readers |-> {}, writer |-> {}]

\* read() returns when no writer holds the lock
RwLock_can_read(l) == l.writer = {}

\* variant: write() does not wait for the readers
RwLock_can_write_among_readers(l) == l.writer = {}

\* write() returns when nobody holds the lock
RwLock_can_write(l) == l.readers = {} /\ l.writer = {}

Threads == {"t1", "t2"}

\* the locals of target_difficulty, with the call's counters: header
\* lookups, blocks-in-epoch queries and cache writes made so far, and
\* prior, the value a call on cur_hash had returned when this call began
IdleFrame ==
    [cur_hash |-> None, cur |-> None, cur_difficulty |-> None,
     block_count |-> 0, max_time |-> 0, min_time |-> 0, i |-> 0,
     target_diff |-> None, header_lookups |-> 0, epoch_queries |-> 0,
     cache_writes |-> 0, prior |-> None]

\* no header store, no resolver call: the state of the pure-function calls
NoResolver ==
    /\ headers = <<>>
    /\ epoch_blocks = [h \in Hashes |-> 0]
    /\ cache = [h \in Hashes |-> None]
    /\ lock = RwLock_new
    /\ pc = [t \in Threads |-> "idle"]
    /\ frame = [t \in Threads |-> IdleFrame]
    /\ returned = [h \in Hashes |-> None]

(* -------------------- calls of the boundary arithmetic ----------------- *)

\* nonces whose lower bounds cover every kept and every cleared cell
NonceSamples ==
    {0, 1, 2^(WordBits - HalfBits) - 1, 2^(WordBits - HalfBits),
     2^(WordBits - 2), 2^(WordBits - 1) - 1, 2^(WordBits - 1), U256_MAX}

BlockHashSamples == {0, 1, 2^HalfBits + 1, U256_MAX}

ArithCalls ==
    ({"validate_hash_against_boundary"} \X (U256 \X NonceSamples \X U256))
    \cup ({"nonce_to_lower_bound"} \X {<<n>> : n \in U256})
    \cup ({"difficulty_to_boundary"} \X {<<x>> : x \in U256})
    \cup ({"boundary_to_difficulty"} \X {<<x>> : x \in U256})
    \cup ({"validate"} \X (BlockHashSamples \X U256 \X NonceSamples))
    \cup ({"pow_hash_to_quality"} \X (U256 \X NonceSamples))

DefaultConfig == ProofOfWorkConfig_new(TRUE, None)

ArithInit ==
    /\ \E c \in ArithCalls : op = c[1] /\ args = c[2]
    /\ ret = NoRet
    /\ pow_config = DefaultConfig
    /\ NoResolver

CallValidateHashAgainstBoundary ==
    /\ op = "validate_hash_against_boundary" /\ ret.st = "none"
    /\ ret' = Returned(validate_hash_against_boundary(args[1], args[2], args[3]))
    /\ UNCHANGED <<op, args, pow_config, resolver>>

CallNonceToLowerBound ==
    /\ op = "nonce_to_lower_bound" /\ ret.st = "none"
    /\ ret' = Returned(nonce_to_lower_bound(args[1]))
    /\ UNCHANGED <<op, args, pow_config, resolver>>

CallDifficultyToBoundary ==
    /\ op = "difficulty_to_boundary" /\ ret.st = "none"
    /\ ret' = Outcome(difficulty_to_boundary(args[1]))
    /\ UNCHANGED <<op, args, pow_config, resolver>>

CallBoundaryToDifficulty ==
    /\ op = "boundary_to_difficulty" /\ ret.st = "none"
    /\ ret' = Outcome(boundary_to_difficulty(args[1]))
    /\ UNCHANGED <<op, args, pow_config, resolver>>

\* ProofOfWorkProblem::new(block_hash, difficulty), then validate(problem,
\* solution); a zero difficulty panics in the constructor
CallValidate ==
    /\ op = "validate" /\ ret.st = "none"
    /\ LET problem == ProofOfWorkProblem_new(args[1], args[2])
       IN  ret' = IF problem.boundary = Panic THEN Panicked
                  ELSE Returned(validate(problem, [nonce |-> args[3]]))
    /\ UNCHANGED <<op, args, pow_config, resolver>>

CallPowHashToQuality ==
    /\ op = "pow_hash_to_quality" /\ ret.st = "none"
    /\ ret' = Outcome(pow_hash_to_quality(args[1], args[2]))
    /\ UNCHANGED <<op, args, pow_config, resolver>>

ArithNext ==
    \/ CallValidateHashAgainstBoundary
    \/ CallNonceToLowerBound
    \/ CallDifficultyToBoundary
    \/ CallBoundaryToDifficulty
    \/ CallValidate
    \/ CallPowHashToQuality

SpecArith == ArithInit /\ [][ArithNext]_vars

(* ------------------ properties of the boundary arithmetic -------------- *)

\* bit i (0 = least significant) of n
Bit(n, i) == (n \div 2^i) % 2

\* the number of least significant bits nonce_to_lower_bound clears
\* (128 in the program)
LowBits == WordBits - HalfBits

\* (h - nonce_to_lower_bound(n)) mod 2^WordBits
WrapDelta(h, n) == (h - nonce_to_lower_bound(n)) % (U256_MAX + 1)

\* C1: validate_hash_against_boundary(h, n, b) is true exactly when the
\* wrap-around delta (h - nonce_to_lower_bound(n)) mod 2^WordBits is below b
\* or b is U256_MAX, so it is true for every h and n when b is U256_MAX; and
\* validate(problem, solution) is that predicate at
\* h = compute(solution.nonce, problem.block_hash), b = problem.boundary.
C1_ValidateIsWrapDeltaBelowBoundary ==
    /\ (op = "validate_hash_against_boundary" /\ ret.st # "none") =>
          /\ ret.st = "ok"
          /\ ret.val = (WrapDelta(args[1], args[2]) < args[3]
                          \/ args[3] = U256_MAX)
          /\ (args[3] = U256_MAX => ret.val = TRUE)
    /\ (op = "validate" /\ ret.st = "ok") =>
          ret.val = (WrapDelta(compute(args[3], args[1]), args[3])
                          < difficulty_to_boundary(args[2])
                       \/ difficulty_to_boundary(args[2]) = U256_MAX)

\* C1 witness: a hash below the nonce's lower bound (the subtraction wraps)
\* was accepted against a boundary that is not the sentinel.
C1_Witness ==
    /\ op = "validate_hash_against_boundary" /\ ret.st = "ok"
    /\ args[1] < nonce_to_lower_bound(args[2])
    /\ args[3] # U256_MAX
    /\ ret.val = TRUE

\* C2: for 2 <= x <= U256_MAX both conversions return floor(2^WordBits / x),
\* which is U256_MAX div x plus one exactly when x divides 2^WordBits; for
\* x = 1 both return U256_MAX.
C2_ConversionsAreFloorOfInverse ==
    (op \in {"difficulty_to_boundary", "boundary_to_difficulty"}
        /\ ret.st # "none" /\ args[1] >= 1) =>
       /\ ret.st = "ok"
       /\ args[1] = 1 => ret.val = U256_MAX
       /\ args[1] >= 2 =>
            /\ ret.val = (U256_MAX + 1) \div args[1]
            /\ ret.val = (U256_MAX \div args[1])
                           + (IF (U256_MAX + 1) % args[1] = 0 THEN 1 ELSE 0)

\* C2 witness: a conversion of a divisor of 2^WordBits (the quotient of
\* U256_MAX is bumped by one).
C2_Witness ==
    /\ op = "difficulty_to_boundary" /\ ret.st = "ok"
    /\ args[1] >= 2 /\ (U256_MAX + 1) % args[1] = 0
    /\ ret.val = (U256_MAX \div args[1]) + 1

\* C3 as stated: for every difficulty d > 1 whose boundary is not one of the
\* saturating endpoints 1 and U256_MAX,
\* boundary_to_difficulty(difficulty_to_boundary(d)) = d.
C3_RoundTripEverywhere ==
    (op = "difficulty_to_boundary" /\ ret.st = "ok" /\ args[1] > 1
        /\ ret.val \notin {1, U256_MAX}) =>
       boundary_to_difficulty(ret.val) = args[1]

\* C3 amended: the round trip is exact for every difficulty d with
\* 1 < d and d * d <= 2^WordBits (d <= 2^128 in the program).
C3_RoundTripBelowSquareRoot ==
    (op = "difficulty_to_boundary" /\ ret.st = "ok" /\ args[1] > 1
        /\ args[1] * args[1] <= U256_MAX + 1) =>
       boundary_to_difficulty(ret.val) = args[1]

\* C3 witness: the largest difficulty of the amended range made the round
\* trip.
C3_Witness ==
    /\ op = "difficulty_to_boundary" /\ ret.st = "ok"
    /\ args[1] > 2
    /\ args[1] * args[1] <= U256_MAX + 1
    /\ (args[1] + 1) * (args[1] + 1) > U256_MAX + 1
    /\ boundary_to_difficulty(ret.val) = args[1]

\* C10: nonce_to_lower_bound(n) is n with the top bit and the LowBits least
\* significant bits cleared and the bits between unchanged; the result is
\* below 2^(WordBits - 1).
C10_LowerBoundKeepsMiddleBits ==
    (op = "nonce_to_lower_bound" /\ ret.st # "none") =>
       /\ ret.st = "ok"
       /\ ret.val \in U256
       /\ Bit(ret.val, WordBits - 1) = 0
       /\ \A i \in 0..(LowBits - 1) : Bit(ret.val, i) = 0
       /\ \A i \in LowBits..(WordBits - 2) : Bit(ret.val, i) = Bit(args[1], i)
       /\ ret.val < 2^(WordBits - 1)

\* C10 witness: a nonce with its top bit, its lowest bit and a middle bit
\* set was converted.
C10_Witness ==
    /\ op = "nonce_to_lower_bound" /\ ret.st = "ok"
    /\ Bit(args[1], WordBits - 1) = 1
    /\ Bit(args[1], 0) = 1
    /\ ret.val # 0

\* C15: difficulty_to_boundary(0) and boundary_to_difficulty(0) panic, so
\* ProofOfWorkProblem::new with difficulty 0 panics; for every non-zero
\* input both conversions return a non-zero value, so the boundary of every
\* constructed ProofOfWorkProblem is non-zero.
C15_ZeroNeverEntersOrLeaves ==
    /\ (op \in {"difficulty_to_boundary", "boundary_to_difficulty"}
          /\ ret.st # "none") =>
          /\ args[1] = 0 => ret.st = "panic"
          /\ args[1] # 0 => (ret.st = "ok" /\ ret.val \in 1..U256_MAX)
    /\ (op = "validate" /\ ret.st # "none") =>
          /\ args[2] = 0 => ret.st = "panic"
          /\ args[2] # 0 =>
                /\ ret.st = "ok"
                /\ ProofOfWorkProblem_new(args[1], args[2]).boundary
                      \in 1..U256_MAX

\* C15 witness: a problem was constructed with the largest difficulty, its
\* boundary is the smallest non-zero value, and a solution was validated
\* against it.
C15_Witness ==
    /\ op = "validate" /\ ret.st = "ok"
    /\ args[2] = U256_MAX
    /\ ProofOfWorkProblem_new(args[1], args[2]).boundary = 1

\* C11: for every hash h and nonce n, with delta = WrapDelta(h, n),
\* pow_hash_to_quality(h, n) returns 1 when delta = U256_MAX and
\* boundary_to_difficulty(delta + 1) otherwise; delta + 1 never overflows and
\* the zero-boundary assertion never fails, so every call returns a value.
C11_QualityIsDifficultyOfDeltaPlusOne ==
    (op = "pow_hash_to_quality" /\ ret.st # "none") =>
       /\ ret.st = "ok"
       /\ LET delta == WrapDelta(args[1], args[2])
          IN  /\ delta = U256_MAX => ret.val = 1
              /\ delta # U256_MAX =>
                    /\ delta + 1 \in 1..U256_MAX
                    /\ ret.val = boundary_to_difficulty(delta + 1)
                    /\ ret.val \in 1..U256_MAX

\* C11 witness: the hash is one below the nonce's non-zero lower bound, the
\* delta wraps to U256_MAX and the quality is 1.
C11_Witness ==
    /\ op = "pow_hash_to_quality" /\ ret.st = "ok"
    /\ nonce_to_lower_bound(args[2]) # 0
    /\ args[1] + 1 = nonce_to_lower_bound(args[2])
    /\ ret.val = 1

\* is the hash accepted for the nonce at difficulty d
AcceptedAt(h, n, d) ==
    validate_hash_against_boundary(h, n, difficulty_to_boundary(d))

\* C19: for every hash h, nonce n and difficulty d >= 1,
\* validate_hash_against_boundary(h, n, difficulty_to_boundary(d)) is true
\* exactly when pow_hash_to_quality(h, n) >= d; so a solution accepted at d
\* is accepted at every d2 in 1..d, and validate on a problem of difficulty d
\* accepts exactly the solutions whose quality is at least d.
C19_QualityAgreesWithValidation ==
    /\ (op = "pow_hash_to_quality" /\ ret.st # "none") =>
          /\ ret.st = "ok"
          /\ \A d \in 1..U256_MAX :
                AcceptedAt(args[1], args[2], d) = (ret.val >= d)
          /\ \A d \in 1..U256_MAX :
                AcceptedAt(args[1], args[2], d) =>
                   \A d2 \in 1..d : AcceptedAt(args[1], args[2], d2)
    /\ (op = "validate" /\ ret.st = "ok") =>
          ret.val = (pow_hash_to_quality(compute(args[3], args[1]), args[3])
                       >= args[2])

\* C19 witness: a hash whose quality, above a non-zero lower bound, is
\* strictly between the endpoints is accepted at its quality and rejected
\* one above it.
C19_Witness ==
    /\ op = "pow_hash_to_quality" /\ ret.st = "ok"
    /\ 1 < ret.val /\ ret.val < U256_MAX
    /\ nonce_to_lower_bound(args[2]) # 0
    /\ AcceptedAt(args[1], args[2], ret.val)
    /\ ~AcceptedAt(args[1], args[2], ret.val + 1)

(* ------------------- calls of the adjustment policy -------------------- *)

\* the largest block count and timespan handed to the policy
MaxBlockCount == EpochPeriod * MaxEpochBlocks + 1

\* the configurations ProofOfWorkConfig::new produces
NewConfigs ==
    {ProofOfWorkConfig_new(TRUE, o) : o \in {None, Some(0), Some(2)}}
    \cup {ProofOfWorkConfig_new(FALSE, None)}

\* and one built field by field (the fields are public), with another period
PolicyConfigs ==
    NewConfigs \cup
    {[ProofOfWorkConfig_new(FALSE, None) EXCEPT !.block_generation_period = 500000]}

PolicyCalls ==
    ({"target_difficulty"}
        \X ((0..MaxBlockCount) \X (0..MaxBlockCount) \X U256))
    \cup ({"get_adjustment_bound"} \X {<<d>> : d \in U256})

PolicyInit ==
    /\ \E c \in PolicyCalls : op = c[1] /\ args = c[2]
    /\ ret = NoRet
    /\ pow_config \in PolicyConfigs
    /\ NoResolver

CallTargetDifficulty ==
    /\ op = "target_difficulty" /\ ret.st = "none"
    /\ ret' = Returned(ProofOfWorkConfig_target_difficulty(pow_config, args[1], args[2], args[3]))
    /\ UNCHANGED <<op, args, pow_config, resolver>>

CallGetAdjustmentBound ==
    /\ op = "get_adjustment_bound" /\ ret.st = "none"
    /\ LET bound == get_adjustment_bound(pow_config, args[1])
       IN  ret' = IF bound[1] = Panic THEN Panicked ELSE Returned(bound)
    /\ UNCHANGED <<op, args, pow_config, resolver>>

PolicyNext ==
    \/ CallTargetDifficulty
    \/ CallGetAdjustmentBound

SpecPolicy == PolicyInit /\ [][PolicyNext]_vars

(* ------------------- properties of the adjustment policy --------------- *)

Maximum(a, b) == IF a >= b THEN a ELSE b

\* the policy's degenerate inputs
Degenerate == args[2] = 0 \/ args[1] <= 1 \/ pow_config.test_mode

\* cur_difficulty * block_generation_period * (block_count - 1)
Numerator == args[3] * pow_config.block_generation_period * (args[1] - 1)

\* timespan * 1000000
Denominator == args[2] * 1000000

\* C7: the policy returns exactly initial_difficulty when timespan = 0, or
\* block_count <= 1, or the configuration is in test mode, whatever the
\* other arguments are (cur_difficulty 0 and U256_MAX included).
C7_DegenerateInputsGiveInitialDifficulty ==
    (op = "target_difficulty" /\ ret.st # "none" /\ Degenerate) =>
       ret.st = "ok" /\ ret.val = pow_config.initial_difficulty

\* C7 witness: a test-mode call with a usable sample and the largest
\* cur_difficulty returned initial_difficulty.
C7_Witness ==
    /\ op = "target_difficulty" /\ ret.st = "ok"
    /\ pow_config.test_mode /\ args[1] >= 2 /\ args[2] > 0
    /\ args[3] = U256_MAX
    /\ ret.val = pow_config.initial_difficulty

\* C8: on other inputs the policy returns
\* t = floor(cur_difficulty * block_generation_period * (block_count - 1)
\*           / (timespan * 1000000)),
\* replaced by 1 when t = 0 and by U256_MAX when t > U256_MAX; so a rate that
\* matches the target leaves a difficulty >= 1 unchanged, and blocks arriving
\* twice as fast double it.
C8_PolicyIsScaledFloor ==
    (op = "target_difficulty" /\ ret.st # "none" /\ ~Degenerate) =>
       /\ ret.st = "ok"
       /\ LET t == Numerator \div Denominator
          IN  ret.val = IF t = 0 THEN 1
                        ELSE IF t > U256_MAX THEN U256_MAX ELSE t
       /\ ret.val \in 1..U256_MAX
       /\ (1 < ret.val /\ ret.val < U256_MAX) =>
             /\ ret.val * Denominator <= Numerator
             /\ Numerator - ret.val * Denominator < Denominator
       /\ (ret.val = 1) => Numerator < 2 * Denominator
       /\ (ret.val = U256_MAX) => Numerator >= U256_MAX * Denominator
       /\ (pow_config.block_generation_period * (args[1] - 1) = Denominator
             /\ args[3] >= 1) => ret.val = args[3]
       /\ (pow_config.block_generation_period * (args[1] - 1) = 2 * Denominator
             /\ args[3] >= 1 /\ 2 * args[3] <= U256_MAX) =>
             ret.val = 2 * args[3]

\* C8 witness: several blocks arrived exactly at the target rate and the
\* difficulty, larger than 1, came back unchanged.
C8_Witness ==
    /\ op = "target_difficulty" /\ ret.st = "ok" /\ ~Degenerate
    /\ args[1] >= 3 /\ args[3] > 1
    /\ pow_config.block_generation_period * (args[1] - 1) = Denominator
    /\ ret.val = args[3]

\* C9: for every diff, get_adjustment_bound(diff) returns (min, max) with
\* adjustment = floor(diff / DIFFICULTY_ADJUSTMENT_FACTOR),
\* min = max(diff - adjustment, initial_difficulty) and
\* max = max(diff + adjustment, min), so min <= max and
\* min >= initial_difficulty.
C9_AdjustmentBoundForEveryDiff ==
    (op = "get_adjustment_bound" /\ ret.st # "none") =>
       /\ ret.st = "ok"
       /\ LET adjustment == args[1] \div DIFFICULTY_ADJUSTMENT_FACTOR
              min == Maximum(args[1] - adjustment, pow_config.initial_difficulty)
              max == Maximum(args[1] + adjustment, min)
          IN  /\ ret.val = <<min, max>>
              /\ min <= max
              /\ min >= pow_config.initial_difficulty

\* C20: for every diff of the word and every initial_difficulty,
\* get_adjustment_bound(diff) completes: neither diff - adjustment nor
\* diff + adjustment leaves the word.
C20_AdjustmentBoundNeverOverflows ==
    (op = "get_adjustment_bound" /\ ret.st # "none") =>
       LET adjustment == args[1] \div DIFFICULTY_ADJUSTMENT_FACTOR
       IN  /\ checked_sub(args[1], adjustment) # Panic
           /\ checked_add(args[1], adjustment) # Panic
           /\ ret.st = "ok"

(* ----------------------- the epoch difficulty resolver ----------------- *)

\* BlockDataManager::block_header_by_hash: is the header stored
header_is_stored(hash) == hash \in DOMAIN headers

\* TargetDifficultyCache::get
cache_get(c, hash) == c[hash]

\* variant: the insert is lost
cache_insert_dropped(c, hash, difficulty) == c

\* variant: the insert evicts every other entry
cache_insert_evicting(c, hash, difficulty) ==
    [x \in DOMAIN c |-> IF x = hash THEN difficulty ELSE None]

\* variant: overwriting an entry stores another value than the one given
cache_insert_not_idempotent(c, hash, difficulty) ==
    [c EXCEPT ![hash] = IF @ = None THEN difficulty ELSE (difficulty + 1) % (U256_MAX + 1)]

\* TargetDifficultyCache::set
cache_insert(c, hash, difficulty) == [c EXCEPT ![hash] = difficulty]

\* variant: the lower clamp is missing
clamp_upper_only(target_diff, lower, upper) ==
    IF target_diff > upper THEN upper ELSE target_diff

\* the two clamps of target_difficulty, the upper one first
clamp(target_diff, lower, upper) ==
    LET t1 == IF target_diff > upper THEN upper ELSE target_diff
    IN  IF t1 < lower THEN lower ELSE t1

\* difficulties of the headers of one chain
HeaderDifficulties == {0, 40, U256_MAX}

\* the configurations the node is started with
ResolverConfigs ==
    {ProofOfWorkConfig_new(TRUE, None), ProofOfWorkConfig_new(TRUE, Some(0)),
     ProofOfWorkConfig_new(FALSE, None)}

\* the hashes target_difficulty is called on
CallTargets == (0..TipHash) \cup {UnknownHash}

\* a chain of headers 0..TipHash, each on top of the one before
ChainHeader(h, d, ts) ==
    [height |-> h, difficulty |-> d, timestamp |-> ts,
     parent_hash |-> IF h = 0 THEN UnknownHash ELSE h - 1]

ResolverInit ==
    /\ op = "resolver" /\ args = <<>> /\ ret = NoRet
    /\ pow_config \in ResolverConfigs
    /\ \E d \in HeaderDifficulties, ts \in [0..TipHash -> 0..MaxTime] :
          headers = [h \in 0..TipHash |-> ChainHeader(h, d, ts[h])]
    /\ \E nb \in [1..TipHash -> 0..MaxEpochBlocks] :
          epoch_blocks = [h \in Hashes |->
                            IF h \in 1..TipHash THEN nb[h]
                            ELSE IF h = 0 THEN 1 ELSE 0]
    /\ cache = [h \in Hashes |-> None]
    /\ lock = RwLock_new
    /\ pc = [t \in Threads |-> "idle"]
    /\ frame = [t \in Threads |-> IdleFrame]
    /\ returned = [h \in Hashes |-> None]

\* where a thread is when it is in no call
AtRest == {"idle", "done", "panicked", "got", "stored"}

\* a thread calls target_difficulty(data_man, pow_config, cur_hash, ..)
Call(t, h) ==
    /\ pc[t] \in AtRest
    /\ pc' = [pc EXCEPT ![t] = "get"]
    /\ frame' = [frame EXCEPT ![t] = [IdleFrame EXCEPT !.cur_hash = h,
                                                       !.prior = returned[h]]]
    /\ UNCHANGED <<op, args, ret, pow_config, chain, cache, lock, returned>>

\* line 319: TargetDifficultyCache::get takes the read lock
ReadLock(t) ==
    /\ pc[t] = "get"
    /\ RwLock_can_read(lock)
    /\ lock' = [lock EXCEPT !.readers = @ \cup {t}]
    /\ pc' = [pc EXCEPT ![t] = "reading"]
    /\ UNCHANGED <<op, args, ret, pow_config, chain, cache, frame, returned>>

\* lines 231-235, 320: the cache lookup under the read lock, the release of
\* the lock at the end of get, and the return on a hit
CacheGet(t) ==
    /\ pc[t] = "reading"
    /\ lock' = [lock EXCEPT !.readers = @ \ {t}]
    /\ LET target_diff == cache_get(cache, frame[t].cur_hash)
       IN  IF target_diff # None
           THEN /\ pc' = [pc EXCEPT ![t] = "done"]
                /\ frame' = [frame EXCEPT ![t].target_diff = target_diff]
                /\ returned' = [returned EXCEPT ![frame[t].cur_hash] = target_diff]
           ELSE /\ pc' = [pc EXCEPT ![t] = "load"]
                /\ UNCHANGED <<frame, returned>>
    /\ UNCHANGED <<op, args, ret, pow_config, chain, cache>>

\* lines 237-252: the header of cur_hash, the checks of its height (the
\* debug_assert! panics in a debug build only) and the locals of the walk
LoadHeader(t) ==
    /\ pc[t] = "load"
    /\ LET f == [frame[t] EXCEPT !.header_lookups = @ + 1]
           h == f.cur_hash
           period == pow_config.difficulty_adjustment_epoch_period
       IN  IF ~header_is_stored(h) THEN
                /\ pc' = [pc EXCEPT ![t] = "panicked"]
                /\ frame' = [frame EXCEPT ![t] = f]
           ELSE IF headers[h].height = 0 THEN
                /\ pc' = [pc EXCEPT ![t] = "panicked"]
                /\ frame' = [frame EXCEPT ![t] = f]
           ELSE \/ /\ headers[h].height # (headers[h].height \div period) * period
                   /\ pc' = [pc EXCEPT ![t] = "panicked"]
                   /\ frame' = [frame EXCEPT ![t] = f]
                \/ /\ pc' = [pc EXCEPT ![t] = "walk"]
                   /\ frame' = [frame EXCEPT ![t] =
                         [f EXCEPT !.cur = h,
                                   !.cur_difficulty = headers[h].difficulty,
                                   !.block_count = 0,
                                   !.max_time = headers[h].timestamp,
                                   !.min_time = 0,
                                   !.i = 0]]
    /\ UNCHANGED <<op, args, ret, pow_config, chain, cache, lock, returned>>

\* variant: a zero timestamp is not skipped
WalkStep_every_timestamp(t) ==
    /\ pc[t] = "walk"
    /\ frame[t].i < pow_config.difficulty_adjustment_epoch_period
    /\ LET f == frame[t]
           parent == headers[f.cur].parent_hash
           counted == [f EXCEPT !.block_count = @ + epoch_blocks[f.cur],
                                !.epoch_queries = @ + 1,
                                !.cur = parent,
                                !.header_lookups = @ + 1]
       IN  IF ~header_is_stored(parent) THEN
                /\ pc' = [pc EXCEPT ![t] = "panicked"]
                /\ frame' = [frame EXCEPT ![t] = counted]
           ELSE LET min_time == headers[parent].timestamp
                    timed == [counted EXCEPT !.min_time = min_time]
                IN  IF f.max_time >= min_time
                    THEN /\ pc' = pc
                         /\ frame' = [frame EXCEPT ![t] = [timed EXCEPT !.i = @ + 1]]
                    ELSE /\ pc' = [pc EXCEPT ![t] = "panicked"]
                         /\ frame' = [frame EXCEPT ![t] = timed]
    /\ UNCHANGED <<op, args, ret, pow_config, chain, cache, lock, returned>>

\* variant: the walk goes on whatever the two times are
WalkStep_no_time_assert(t) ==
    /\ pc[t] = "walk"
    /\ frame[t].i < pow_config.difficulty_adjustment_epoch_period
    /\ LET f == frame[t]
           parent == headers[f.cur].parent_hash
           counted == [f EXCEPT !.block_count = @ + epoch_blocks[f.cur],
                                !.epoch_queries = @ + 1,
                                !.cur = parent,
                                !.header_lookups = @ + 1]
       IN  IF ~header_is_stored(parent) THEN
                /\ pc' = [pc EXCEPT ![t] = "panicked"]
                /\ frame' = [frame EXCEPT ![t] = counted]
           ELSE LET min_time == IF headers[parent].timestamp # 0
                                THEN headers[parent].timestamp
                                ELSE f.min_time
                    timed == [counted EXCEPT !.min_time = min_time]
                IN  /\ pc' = pc
                    /\ frame' = [frame EXCEPT ![t] = [timed EXCEPT !.i = @ + 1]]
    /\ UNCHANGED <<op, args, ret, pow_config, chain, cache, lock, returned>>

\* lines 255-263: one iteration of the walk
WalkStep(t) ==
    /\ pc[t] = "walk"
    /\ frame[t].i < pow_config.difficulty_adjustment_epoch_period
    /\ LET f == frame[t]
           parent == headers[f.cur].parent_hash
           counted == [f EXCEPT !.block_count = @ + epoch_blocks[f.cur],
                                !.epoch_queries = @ + 1,
                                !.cur = parent,
                                !.header_lookups = @ + 1]
       IN  IF ~header_is_stored(parent) THEN
                /\ pc' = [pc EXCEPT ![t] = "panicked"]
                /\ frame' = [frame EXCEPT ![t] = counted]
           ELSE LET min_time == IF headers[parent].timestamp # 0
                                THEN headers[parent].timestamp
                                ELSE f.min_time
                    timed == [counted EXCEPT !.min_time = min_time]
                IN  IF f.max_time >= min_time
                    THEN /\ pc' = pc
                         /\ frame' = [frame EXCEPT ![t] = [timed EXCEPT !.i = @ + 1]]
                    ELSE /\ pc' = [pc EXCEPT ![t] = "panicked"]
                         /\ frame' = [frame EXCEPT ![t] = timed]
    /\ UNCHANGED <<op, args, ret, pow_config, chain, cache, lock, returned>>

\* lines 265-277: the policy's value, clamped into the adjustment bound
ComputeTarget(t) ==
    /\ pc[t] = "walk"
    /\ frame[t].i = pow_config.difficulty_adjustment_epoch_period
    /\ LET f == frame[t]
           target_diff == ProofOfWorkConfig_target_difficulty(pow_config, f.block_count, f.max_time - f.min_time, f.cur_difficulty)
           bound == get_adjustment_bound(pow_config, f.cur_difficulty)
       IN  IF bound[1] = Panic
           THEN /\ pc' = [pc EXCEPT ![t] = "panicked"]
                /\ frame' = frame
           ELSE /\ pc' = [pc EXCEPT ![t] = "set"]
                /\ frame' = [frame EXCEPT ![t].target_diff =
                                clamp(target_diff, bound[1], bound[2])]
    /\ UNCHANGED <<op, args, ret, pow_config, chain, cache, lock, returned>>

\* line 324: TargetDifficultyCache::set takes the write lock
WriteLock(t) ==
    /\ pc[t] = "set"
    /\ RwLock_can_write(lock)
    /\ lock' = [lock EXCEPT !.writer = {t}]
    /\ pc' = [pc EXCEPT ![t] = "writing"]
    /\ UNCHANGED <<op, args, ret, pow_config, chain, cache, frame, returned>>

\* lines 279-284, 325: the insert under the write lock, the release of the
\* lock at the end of set, and the return
CacheSet(t) ==
    /\ pc[t] = "writing"
    /\ lock' = [lock EXCEPT !.writer = @ \ {t}]
    /\ cache' = cache_insert(cache, frame[t].cur_hash, frame[t].target_diff)
    /\ frame' = [frame EXCEPT ![t].cache_writes = @ + 1]
    /\ pc' = [pc EXCEPT ![t] = "done"]
    /\ returned' = [returned EXCEPT ![frame[t].cur_hash] = frame[t].target_diff]
    /\ UNCHANGED <<op, args, ret, pow_config, chain>>

\* target_difficulty called again and again by one thread
ResolverNext ==
    \/ \E h \in CallTargets : Call("t1", h)
    \/ ReadLock("t1")
    \/ CacheGet("t1")
    \/ LoadHeader("t1")
    \/ WalkStep("t1")
    \/ ComputeTarget("t1")
    \/ WriteLock("t1")
    \/ CacheSet("t1")

SpecResolver == ResolverInit /\ [][ResolverNext]_vars

(* --------------------- the resolver called by two threads -------------- *)

\* the stored hashes of a forked chain: the trunk, two tips of height
\* EpochPeriod and a child of the first tip
ForkHashes == (0..TipHash) \cup {OtherTipHash, ChildHash}

ForkHeight(h) ==
    IF h = OtherTipHash THEN EpochPeriod
    ELSE IF h = ChildHash THEN EpochPeriod + 1 ELSE h

ForkParent(h) ==
    IF h = 0 THEN UnknownHash
    ELSE IF h = OtherTipHash THEN EpochPeriod - 1
    ELSE IF h = ChildHash THEN TipHash ELSE h - 1

\* timestamps grow with the height along the trunk, from 0 at the genesis
\* header; the first tip's timestamp is tip_time
ForkTimestamp(h, tip_time) ==
    IF h = TipHash THEN tip_time
    ELSE IF ForkHeight(h) > MaxTime THEN MaxTime ELSE ForkHeight(h)

ForkHeader(h, d, tip_time) ==
    [height |-> ForkHeight(h), difficulty |-> d,
     timestamp |-> ForkTimestamp(h, tip_time), parent_hash |-> ForkParent(h)]

ForkDifficulties == {1, 40}

ForkConfigs ==
    {ProofOfWorkConfig_new(TRUE, None), ProofOfWorkConfig_new(FALSE, None)}

\* the hashes the two threads call target_difficulty on
ForkTargets == ForkHashes \cup {UnknownHash}

ForkInit ==
    /\ op = "resolver" /\ args = <<>> /\ ret = NoRet
    /\ pow_config \in ForkConfigs
    /\ \E d \in ForkDifficulties, tip_time \in 1..MaxTime :
          headers = [h \in ForkHashes |-> ForkHeader(h, d, tip_time)]
    /\ \E tip_blocks \in 1..MaxEpochBlocks :
          epoch_blocks = [h \in Hashes |->
                            IF h = TipHash THEN tip_blocks
                            ELSE IF h = OtherTipHash THEN MaxEpochBlocks
                            ELSE IF h \in ForkHashes THEN 1 ELSE 0]
    /\ cache = [h \in Hashes |-> None]
    /\ lock = RwLock_new
    /\ pc = [t \in Threads |-> "idle"]
    /\ frame = [t \in Threads |-> IdleFrame]
    /\ returned = [h \in Hashes |-> None]

\* target_difficulty called by the two threads, in every interleaving
ForkNext ==
    \E t \in Threads :
       \/ \E h \in ForkTargets : Call(t, h)
       \/ ReadLock(t)
       \/ CacheGet(t)
       \/ LoadHeader(t)
       \/ WalkStep(t)
       \/ ComputeTarget(t)
       \/ WriteLock(t)
       \/ CacheSet(t)

SpecConcurrent == ForkInit /\ [][ForkNext]_vars

(* ------------- the cache read and written beside the resolver ---------- *)

\* the hashes and difficulties of the calls of TargetDifficultyManager's
\* get and set made from outside the resolver
ManagerHashes == {TipHash, UnknownHash}
ManagerDifficulties == {7, U256_MAX}

\* the hashes target_difficulty is called on beside them
ManagerTargets == {TipHash, OtherTipHash}

\* one forked chain, with a configuration that is not in test mode
ManagerInit ==
    /\ ForkInit
    /\ pow_config = ProofOfWorkConfig_new(FALSE, None)
    /\ headers[TipHash].difficulty = 40
    /\ headers[TipHash].timestamp = MaxTime
    /\ epoch_blocks[TipHash] = 1

\* lines 346, 318-319: TargetDifficultyManager::get, up to the read lock
ManagerGet(t, h) ==
    /\ pc[t] \in AtRest
    /\ RwLock_can_read(lock)
    /\ lock' = [lock EXCEPT !.readers = @ \cup {t}]
    /\ pc' = [pc EXCEPT ![t] = "manager_reading"]
    /\ frame' = [frame EXCEPT ![t] = [IdleFrame EXCEPT !.cur_hash = h]]
    /\ UNCHANGED <<op, args, ret, pow_config, chain, cache, returned>>

\* line 320: the lookup, the release of the lock and the return
ManagerGetReturn(t) ==
    /\ pc[t] = "manager_reading"
    /\ lock' = [lock EXCEPT !.readers = @ \ {t}]
    /\ pc' = [pc EXCEPT ![t] = "got"]
    /\ frame' = [frame EXCEPT ![t].target_diff = cache_get(cache, frame[t].cur_hash)]
    /\ UNCHANGED <<op, args, ret, pow_config, chain, cache, returned>>

\* lines 348-350, 323-324: TargetDifficultyManager::set, up to the write
\* lock
ManagerSet(t, h, d) ==
    /\ pc[t] \in AtRest
    /\ RwLock_can_write(lock)
    /\ lock' = [lock EXCEPT !.writer = {t}]
    /\ pc' = [pc EXCEPT ![t] = "manager_writing"]
    /\ frame' = [frame EXCEPT ![t] = [IdleFrame EXCEPT !.cur_hash = h, !.target_diff = d]]
    /\ UNCHANGED <<op, args, ret, pow_config, chain, cache, returned>>

\* line 325: the insert, the release of the lock and the return
ManagerSetReturn(t) ==
    /\ pc[t] = "manager_writing"
    /\ lock' = [lock EXCEPT !.writer = @ \ {t}]
    /\ cache' = cache_insert(cache, frame[t].cur_hash, frame[t].target_diff)
    /\ frame' = [frame EXCEPT ![t].cache_writes = @ + 1]
    /\ pc' = [pc EXCEPT ![t] = "stored"]
    /\ UNCHANGED <<op, args, ret, pow_config, chain, returned>>

\* get, set and target_difficulty called by the two threads
ManagerNext ==
    \E t \in Threads :
       \/ \E h \in ManagerTargets : Call(t, h)
       \/ ReadLock(t)
       \/ CacheGet(t)
       \/ LoadHeader(t)
       \/ WalkStep(t)
       \/ ComputeTarget(t)
       \/ WriteLock(t)
       \/ CacheSet(t)
       \/ \E h \in ManagerHashes : ManagerGet(t, h)
       \/ ManagerGetReturn(t)
       \/ \E h \in ManagerHashes, d \in ManagerDifficulties : ManagerSet(t, h, d)
       \/ ManagerSetReturn(t)

SpecManager == ManagerInit /\ [][ManagerNext]_vars

(* ----------------------- properties of the resolver -------------------- *)

\* the thread's call missed the cache and has computed its value
ComputedOnMiss(t) ==
    pc[t] \in {"set", "writing"} \/ (pc[t] = "done" /\ frame[t].cache_writes = 1)

\* C4: every value target_difficulty computes on a cache miss lies within
\* (min, max) = get_adjustment_bound(difficulty of the header at cur_hash),
\* and min <= max.
C4_ResolvedValueWithinAdjustmentBound ==
    \A t \in Threads :
       ComputedOnMiss(t) =>
          LET bound == get_adjustment_bound(pow_config, headers[frame[t].cur_hash].difficulty)
          IN  /\ bound[1] # Panic
              /\ bound[1] <= bound[2]
              /\ bound[1] <= frame[t].target_diff
              /\ frame[t].target_diff <= bound[2]

\* C4 witness: the policy's value was above the upper bound and the call
\* computed the upper bound instead.
C4_Witness ==
    \E t \in Threads :
       /\ pc[t] = "set"
       /\ LET f == frame[t]
              bound == get_adjustment_bound(pow_config, f.cur_difficulty)
          IN  /\ ProofOfWorkConfig_target_difficulty(pow_config, f.block_count, f.max_time - f.min_time, f.cur_difficulty) > bound[2]
              /\ bound[1] < bound[2]
              /\ f.target_diff = bound[2]

\* C5: once a call on a hash has returned v, every later call on that hash
\* is a cache hit: it returns v and makes no header lookup, no
\* blocks-in-epoch query and no cache write.
C5_LaterCallsAreCacheHits ==
    \A t \in Threads :
       frame[t].prior # None =>
          /\ pc[t] \in {"get", "reading", "done"}
          /\ frame[t].header_lookups = 0
          /\ frame[t].epoch_queries = 0
          /\ frame[t].cache_writes = 0
          /\ pc[t] = "done" => frame[t].target_diff = frame[t].prior

\* C5 witness: a second call on a resolved hash has returned.
C5_Witness ==
    \E t \in Threads :
       /\ pc[t] = "done"
       /\ frame[t].prior # None
       /\ frame[t].target_diff = frame[t].prior
       /\ cache[frame[t].cur_hash] = frame[t].prior

\* C6: for every configuration ProofOfWorkConfig::new produces and every
\* chain, every value target_difficulty returns and every value in the cache
\* is non-zero and at least initial_difficulty.
C6_DifficultyNeverZero ==
    /\ \A t \in Threads :
          pc[t] = "done" =>
             /\ frame[t].target_diff # 0
             /\ frame[t].target_diff >= pow_config.initial_difficulty
    /\ \A h \in Hashes :
          cache[h] # None =>
             /\ cache[h] # 0
             /\ cache[h] >= pow_config.initial_difficulty

\* the k-th ancestor of a stored hash along the parent_hash links
RECURSIVE Ancestor(_, _)
Ancestor(h, k) == IF k = 0 THEN h ELSE Ancestor(headers[h].parent_hash, k - 1)

\* the sum of the blocks-in-epoch answers over h and its first k - 1
\* ancestors
RECURSIVE EpochBlocksSum(_, _)
EpochBlocksSum(h, k) ==
    IF k = 0 THEN 0
    ELSE epoch_blocks[h] + EpochBlocksSum(headers[h].parent_hash, k - 1)

\* the timestamp of the deepest of the ancestors 1..k of h whose timestamp
\* is non-zero, 0 when there is none
RECURSIVE DeepestNonZeroTime(_, _)
DeepestNonZeroTime(h, k) ==
    IF k = 0 THEN 0
    ELSE IF headers[Ancestor(h, k)].timestamp # 0
         THEN headers[Ancestor(h, k)].timestamp
         ELSE DeepestNonZeroTime(h, k - 1)

\* C16: a call that missed the cache and computed its value has followed
\* exactly P parent links (P + 1 header lookups, P blocks-in-epoch queries);
\* its block_count is the sum of the blocks-in-epoch answers over cur_hash
\* and its first P - 1 ancestors, its max_time the timestamp of the header
\* at cur_hash, its min_time the timestamp of the deepest of the P visited
\* ancestors with a non-zero timestamp (0 if none); its value is the
\* policy's value for (block_count, max_time - min_time, cur_difficulty)
\* brought into get_adjustment_bound(cur_difficulty); and once it has
\* returned it has made one cache write, cur_hash -> value, and every other
\* entry is what it was.
C16_WalkAggregatesOneEpoch ==
    \A t \in Threads :
       ComputedOnMiss(t) =>
          LET f == frame[t]
              h == f.cur_hash
              P == pow_config.difficulty_adjustment_epoch_period
              cur_difficulty == headers[h].difficulty
              block_count == EpochBlocksSum(h, P)
              max_time == headers[h].timestamp
              min_time == DeepestNonZeroTime(h, P)
              bound == get_adjustment_bound(pow_config, cur_difficulty)
              policy == ProofOfWorkConfig_target_difficulty(pow_config, block_count, max_time - min_time, cur_difficulty)
          IN  /\ f.i = P /\ f.header_lookups = P + 1 /\ f.epoch_queries = P
              /\ f.cur = Ancestor(h, P)
              /\ f.block_count = block_count
              /\ f.max_time = max_time
              /\ f.min_time = min_time
              /\ max_time >= min_time
              /\ f.target_diff = Maximum(bound[1], IF policy > bound[2] THEN bound[2] ELSE policy)
              /\ pc[t] = "done" =>
                    /\ f.cache_writes = 1
                    /\ cache[h] = f.target_diff
                    /\ \A h2 \in Hashes \ {h} : cache[h2] = returned[h2]

\* C16 witness: a walk over epochs of different sizes and over a zero
\* timestamp at the end of the walk, skipped for a non-zero one before it,
\* has stored its value.
C16_Witness ==
    \E t \in Threads :
       /\ pc[t] = "done" /\ frame[t].cache_writes = 1
       /\ epoch_blocks[frame[t].cur_hash] # epoch_blocks[headers[frame[t].cur_hash].parent_hash]
       /\ headers[frame[t].cur].timestamp = 0
       /\ frame[t].min_time # 0
       /\ frame[t].max_time > frame[t].min_time
       /\ frame[t].block_count > 2
       /\ cache[frame[t].cur_hash] = frame[t].target_diff

\* the thread's call is in its walk or past it
WalkBegun(t) == frame[t].cur # None

SequentialValue(h) ==
    LET P == pow_config.difficulty_adjustment_epoch_period
        cur_difficulty == headers[h].difficulty
        bound == get_adjustment_bound(pow_config, cur_difficulty)
        policy == ProofOfWorkConfig_target_difficulty(pow_config, EpochBlocksSum(h, P), headers[h].timestamp - DeepestNonZeroTime(h, P), cur_difficulty)
    IN  Maximum(bound[1], IF policy > bound[2] THEN bound[2] ELSE policy)

\* every value computed on a miss, returned or cached is the sequential one
C12_EveryValueIsTheSequentialOne ==
    /\ \A t \in Threads :
          ComputedOnMiss(t) =>
             /\ frame[t].target_diff = SequentialValue(frame[t].cur_hash)
             /\ \A u \in Threads :
                   (ComputedOnMiss(u) /\ frame[u].cur_hash = frame[t].cur_hash)
                      => frame[u].target_diff = frame[t].target_diff
             /\ pc[t] = "done" => cache[frame[t].cur_hash] = frame[t].target_diff
    /\ \A t \in Threads :
          (pc[t] = "done" /\ frame[t].cache_writes = 0) =>
             frame[t].target_diff = SequentialValue(frame[t].cur_hash)
    /\ \A h \in Hashes :
          cache[h] # None => cache[h] = SequentialValue(h)

\* a written entry keeps its value
C12_WrittenEntryKeepsItsValue ==
    \A h \in Hashes : cache[h] # None => cache'[h] = cache[h]

\* C12: when two threads run target_difficulty on the same cur_hash over
\* the same chain and configuration and both miss the cache, then in every
\* interleaving both compute and return the same value, both writes store
\* it, the entry is what one sequential call would have stored, and an
\* entry never changes its value once written.
C12_ConcurrentMissesAgree ==
    []C12_EveryValueIsTheSequentialOne /\ [][C12_WrittenEntryKeepsItsValue]_vars

\* C12 witness: both threads missed the cache for the first tip, each made
\* its cache write, and both returned the entry's value; the configuration
\* is not in test mode, so the value was computed from the walk.
C12_Witness ==
    /\ ~pow_config.test_mode
    /\ \A t \in Threads :
          /\ pc[t] = "done"
          /\ frame[t].cur_hash = TipHash
          /\ frame[t].cache_writes = 1
          /\ frame[t].target_diff = cache[TipHash]

\* cur_hash breaks the resolver's precondition: it is not stored, or its
\* header's height is zero or not a multiple of the epoch period
BadCurHash(h) ==
    \/ ~header_is_stored(h)
    \/ headers[h].height = 0
    \/ headers[h].height % pow_config.difficulty_adjustment_epoch_period # 0

\* C14: a call of target_difficulty on a hash that is not stored, or whose
\* header's height is zero or not a multiple of the epoch period, aborts:
\* it computes and returns no difficulty, and the cache holds no entry for
\* such a hash.
C14_BadCurHashIsFatal ==
    /\ \A t \in Threads :
          (frame[t].cur_hash # None /\ BadCurHash(frame[t].cur_hash)) =>
             /\ pc[t] \notin {"set", "writing", "done"}
             /\ frame[t].cache_writes = 0
    /\ \A h \in Hashes : BadCurHash(h) => cache[h] = None

(* ------------------------ properties of the cache ---------------------- *)

\* the thread's step ends a get (the resolver's or one from outside)
GetReturns(t) == pc[t] \in {"reading", "manager_reading"} /\ pc'[t] # pc[t]

\* the thread's step ends a set (the resolver's or one from outside)
SetReturns(t) == pc[t] \in {"writing", "manager_writing"} /\ pc'[t] # pc[t]

\* in every step: a get returns the entry of its hash, None when there is
\* none, and changes nothing; a set stores its difficulty under its hash
\* and changes no other entry; nothing but a set changes the cache; and an
\* entry that is present stays present
C13_Step ==
    /\ \A t \in Threads :
          GetReturns(t) =>
             /\ cache' = cache
             /\ pc[t] = "manager_reading" =>
                   frame'[t].target_diff = cache[frame[t].cur_hash]
             /\ (pc[t] = "reading" /\ cache[frame[t].cur_hash] = None) =>
                   pc'[t] = "load"
             /\ (pc[t] = "reading" /\ cache[frame[t].cur_hash] # None) =>
                   /\ pc'[t] = "done"
                   /\ frame'[t].target_diff = cache[frame[t].cur_hash]
    /\ \A t \in Threads :
          SetReturns(t) =>
             /\ cache'[frame[t].cur_hash] = frame[t].target_diff
             /\ \A h \in Hashes \ {frame[t].cur_hash} : cache'[h] = cache[h]
    /\ cache' # cache => \E t \in Threads : SetReturns(t)
    /\ \A h \in Hashes : cache[h] # None => cache'[h] # None

\* C13: the cache is an append-only map: get(h) returns None when no
\* set(h, _) has completed and the value of the most recent completed
\* set(h, _) otherwise, set(h, d) changes the entry of h only, and over
\* get, set and resolver calls a key once present is never removed.
C13_CacheIsAppendOnlyMap == [][C13_Step]_vars

\* C13 witness: an entry written from outside the resolver was overwritten
\* by a later set, a get returned the later value, and the entry the
\* resolver wrote for another hash is still there.
C13_Witness ==
    \E t, u \in Threads :
       /\ pc[t] = "got" /\ pc[u] = "stored"
       /\ frame[t].cur_hash = TipHash /\ frame[u].cur_hash = TipHash
       /\ frame[u].target_diff = U256_MAX
       /\ frame[t].target_diff = U256_MAX
       /\ cache[TipHash] = U256_MAX
       /\ returned[TipHash] = 7
       /\ cache[OtherTipHash] # None

(* ------------------------ properties of the lock ----------------------- *)

\* a step of the thread inside the call it is in
StepInsideCall(t) ==
    \/ ReadLock(t) \/ CacheGet(t) \/ LoadHeader(t) \/ WalkStep(t)
    \/ ComputeTarget(t) \/ WriteLock(t) \/ CacheSet(t)
    \/ ManagerGetReturn(t) \/ ManagerSetReturn(t)

\* the thread holds the lock, for reading or for writing
HoldsLock(t) == t \in lock.readers \cup lock.writer

\* in every state: a thread holds the read lock exactly inside a get and
\* the write lock exactly inside a set, and no lock while it loads the
\* header, walks, computes or is in no call; a writer is alone; a get
\* waits for nothing but a writer; a thread holding the lock can finish
\* its get or set at once; and a thread inside a call can take a step or
\* waits for a thread that holds the lock
C18_LockState ==
    /\ \A t \in Threads :
          /\ (t \in lock.readers) = (pc[t] \in {"reading", "manager_reading"})
          /\ (t \in lock.writer) = (pc[t] \in {"writing", "manager_writing"})
          /\ pc[t] \in {"get", "load", "walk", "set"} \cup AtRest => ~HoldsLock(t)
    /\ lock.writer # {} => (Cardinality(lock.writer) = 1 /\ lock.readers = {})
    /\ \A t \in Threads :
          (pc[t] = "get" /\ lock.writer = {}) => ENABLED ReadLock(t)
    /\ \A t \in Threads : HoldsLock(t) => ENABLED StepInsideCall(t)
    /\ \A t \in Threads :
          pc[t] \notin AtRest =>
             \/ ENABLED StepInsideCall(t)
             \/ \E u \in Threads \ {t} : HoldsLock(u) /\ ENABLED StepInsideCall(u)

\* in every step: the thread that holds the write lock gives it up with the
\* one insert it makes, and a thread that holds the read lock gives it up
\* with its lookup
C18_LockStep ==
    \A t \in Threads :
       /\ (t \in lock.writer /\ pc'[t] # pc[t]) =>
             /\ lock'.writer = {}
             /\ frame'[t].cache_writes = frame[t].cache_writes + 1
       /\ (t \in lock.readers /\ pc'[t] # pc[t]) => t \notin lock'.readers

\* C18: the resolver holds the cache lock only inside the get at its start
\* and the set at its end, the walk and the policy run with no lock held;
\* readers do not block each other, a writer excludes the others for one
\* insert only, two resolutions of different hashes can be in their walks
\* at the same time, and no interleaving of resolver, get and set calls
\* deadlocks.
C18_LockHeldOnlyInsideGetAndSet == []C18_LockState /\ [][C18_LockStep]_vars

\* C18 witness: the two threads are in the walks of different hashes, past
\* their first ancestor, and nobody holds the lock.
C18_Witness ==
    /\ \A t \in Threads : pc[t] = "walk" /\ frame[t].i >= 1
    /\ frame["t1"].cur_hash # frame["t2"].cur_hash
    /\ lock = RwLock_new

(* ------------------------ signal and slot lists ------------------------ *)

\* the longest slot_list and bind_list
MaxListLen == 3

\* account addresses, and signal and slot keys
Addresses == {1, 2}
Keys == {1, 2}

SignalLocation_new(owner, signal_key) ==
    [address |-> owner, signal_key |-> signal_key]

SlotLocation_new(owner, contract, slot_key) ==
    [address |-> owner, contract_address |-> contract, slot_key |-> slot_key]

\* Slot: the gas fields take no part in the removal and are left out
Slot_new(location) == [location |-> location]

\* Vec::remove(i), i counted from 0
Vec_remove(v, i) == SubSeq(v, 1, i) \o SubSeq(v, i + 2, Len(v))

\* signal.rs lines 103-108: the loop over 0..len, len being the length the
\* list had before the loop; slot_list[i] panics when i is out of range
RECURSIVE remove_from_slot_list_loop(_, _, _, _)
remove_from_slot_list_loop(slot_list, loc, i, len) ==
    IF i >= len THEN Returned(slot_list)
    ELSE IF i >= Len(slot_list) THEN Panicked
    ELSE LET slot == slot_list[i + 1]
         IN  IF slot.location.address = loc.address
                  /\ slot.location.slot_key = loc.slot_key
             THEN remove_from_slot_list_loop(Vec_remove(slot_list, i), loc, i + 1, len)
             ELSE remove_from_slot_list_loop(slot_list, loc, i + 1, len)

\* SignalInfo::remove_from_slot_list
remove_from_slot_list(slot_list, loc) ==
    remove_from_slot_list_loop(slot_list, loc, 0, Len(slot_list))

\* signal.rs lines 171-176: the same loop over bind_list
RECURSIVE remove_from_bind_list_loop(_, _, _, _)
remove_from_bind_list_loop(bind_list, loc, i, len) ==
    IF i >= len THEN Returned(bind_list)
    ELSE IF i >= Len(bind_list) THEN Panicked
    ELSE LET sig == bind_list[i + 1]
         IN  IF sig.address = loc.address /\ sig.signal_key = loc.signal_key
             THEN remove_from_bind_list_loop(Vec_remove(bind_list, i), loc, i + 1, len)
             ELSE remove_from_bind_list_loop(bind_list, loc, i + 1, len)

\* SlotInfo::remove_from_bind_list
remove_from_bind_list(bind_list, loc) ==
    remove_from_bind_list_loop(bind_list, loc, 0, Len(bind_list))

SignalLocations ==
    {SignalLocation_new(a, k) : a \in Addresses, k \in Keys}

SlotLocations ==
    {SlotLocation_new(a, c, k) : a \in Addresses, c \in Addresses, k \in Keys}

\* the lists add_to_slot_list and add_to_bind_list build, duplicates included
SlotLists ==
    UNION {[1..n -> {Slot_new(l) : l \in SlotLocations}] : n \in 0..MaxListLen}

BindLists == UNION {[1..n -> SignalLocations] : n \in 0..MaxListLen}

SignalCalls ==
    ({"remove_from_slot_list"} \X (SlotLists \X SlotLocations))
    \cup ({"remove_from_bind_list"} \X (BindLists \X SignalLocations))

SignalInit ==
    /\ \E c \in SignalCalls : op = c[1] /\ args = c[2]
    /\ ret = NoRet
    /\ pow_config = DefaultConfig
    /\ NoResolver

CallRemoveFromSlotList ==
    /\ op = "remove_from_slot_list" /\ ret.st = "none"
    /\ ret' = remove_from_slot_list(args[1], args[2])
    /\ UNCHANGED <<op, args, pow_config, resolver>>

CallRemoveFromBindList ==
    /\ op = "remove_from_bind_list" /\ ret.st = "none"
    /\ ret' = remove_from_bind_list(args[1], args[2])
    /\ UNCHANGED <<op, args, pow_config, resolver>>

SignalNext ==
    \/ CallRemoveFromSlotList
    \/ CallRemoveFromBindList

SpecSignal == SignalInit /\ [][SignalNext]_vars

(* ------------------- properties of the list removals ------------------- *)

\* C21: remove_from_slot_list(loc) and remove_from_bind_list(loc), on a list
\* of any length and content, complete without an out-of-range index and
\* leave exactly the entries whose (address, key) pair differs from loc's,
\* in their original order.
C21_RemoveLeavesTheOtherEntries ==
    /\ (op = "remove_from_slot_list" /\ ret.st # "none") =>
          LET Differs(slot) == ~(slot.location.address = args[2].address
                                  /\ slot.location.slot_key = args[2].slot_key)
          IN  ret.st = "ok" /\ ret.val = SelectSeq(args[1], Differs)
    /\ (op = "remove_from_bind_list" /\ ret.st # "none") =>
          LET Differs(sig) == ~(sig.address = args[2].address
                                 /\ sig.signal_key = args[2].signal_key)
          IN  ret.st = "ok" /\ ret.val = SelectSeq(args[1], Differs)

=============================================================================
